---- MODULE Spec2Model ----
(***************************************************************************)
(* PGL (CropAbility, src/main/python): the Triton element-wise add kernel  *)
(* and its launcher (pgl/ops/add.py), the dispatcher add() with its        *)
(* PyTorch fallback, the TorchScript exporter (pgl/ops/export.py), the     *)
(* benchmark / validation harness (pgl/ops/test.py) and the command line   *)
(* (pgl_main.py).                                                          *)
(*                                                                         *)
(* Three specifications share the variables below:                         *)
(*   Spec      one call of triton_add, its kernel units interleaved at the *)
(*             granularity of the kernel's load / load / add / store lines *)
(*   SpecAdd   one call of add() or of triton_add() by a caller, the       *)
(*             kernel launch taken as one step                             *)
(*   SpecCli   one run of pgl_main.main()                                  *)
(***************************************************************************)
EXTENDS Integers, Sequences, FiniteSets, TLC

(***************************************************************************)
(* Bounds.  add.py:64 sets BLOCK_SIZE = 1024; the kernel is written for    *)
(* any block size (it is a constexpr parameter of add_kernel), and the     *)
(* model runs it with a small one so that whole launches can be            *)
(* enumerated.  MaxN bounds the element count of a tensor.                 *)
(***************************************************************************)
BLOCK_SIZE == 2
MaxN == 5

\* element values (float32 payloads are modelled by small integers)
Values == {0, 1}
\* A cell of a buffer torch.empty_like has allocated and nothing has written:
\* its content is unspecified, so the marker is equal to no value a
\* computation can produce and any property that reads it fails.
Uninit == 99
\* content of device memory that belongs to no tensor of the call
Guard == -1

DTypes == {"float32", "float16"}

VARIABLES
    \* ---- one call of triton_add (add.py:42-70)
    x,           \* first operand:  [data, dtype, cuda]
    y,           \* second operand
    tpc,         \* position in triton_add: "assert","launch","running","returned","raised"
    output,      \* the tensor triton_add returns (None before)
    raised,      \* the exception that left the call (NoException if none)
    n_elements,  \* add.py:61
    grid,        \* add.py:65, number of kernel units
    mem,         \* device memory: x at x_ptr, y at y_ptr, output at output_ptr, then guard cells
    pc,          \* kernel unit pid -> "load_x","load_y","add","store","done"
    regs,        \* kernel unit pid -> [x, y, output]: the unit's block-sized values
    accessed,    \* log of memory accesses: [pid, op, idx]
    nstores,     \* output index -> number of element stores made to it
    \* ---- one call of add() (add.py:85-104)
    entry,       \* which function the caller invokes: "add" or "triton_add"
    use_triton,
    cuda_available,
    apc,         \* position in add(): "call","try","except","fallback","else","returned","raised"
    caught,      \* the exception add() caught from triton_add
    events,      \* sequence of calls and log records, in order
    result,      \* the value handed to the caller (None before / on failure)
    \* ---- one run of the command line (pgl_main.py:15-80)
    args,        \* parsed arguments
    env,         \* environment of the run
    cpc,         \* position in main()
    exit_code,   \* process exit code (-1 while running)
    stdout,      \* sequence of printed records
    ex,          \* exporter state
    bm,          \* benchmark_add_operations frame
    vc           \* validate_correctness frame

kvars == <<x, y, tpc, output, raised, n_elements, grid, mem, pc, regs, accessed, nstores>>
avars == <<entry, use_triton, cuda_available, apc, caught, events, result>>
cvars == <<args, env, cpc, exit_code, stdout, ex, bm, vc>>
vars == <<kvars, avars, cvars>>

None == [none |-> TRUE]

(***************************************************************************)
(* Tensors (1-D, as every caller in the repository builds them).           *)
(***************************************************************************)
Tensor(data, dtype, cuda) == [data |-> data, dtype |-> dtype, cuda |-> cuda]
shape(t) == <<Len(t.data)>>
numel(t) == Len(t.data)
SeqsOfLen(n) == [1..n -> Values]

(***************************************************************************)
(* add_kernel, add.py:15-40                                                *)
(***************************************************************************)
\* triton.cdiv
cdiv(a, b) == (a + b - 1) \div b

\* tl.arange(0, BLOCK_SIZE)
arange(lo, hi) == [k \in 1..(hi - lo) |-> lo + k - 1]

\* add.py:28
block_start_bug(pid) == pid * (BLOCK_SIZE - 1)
block_start(pid) == pid * BLOCK_SIZE

\* add.py:29
offsets(pid) == [k \in 1..BLOCK_SIZE |-> block_start(pid) + arange(0, BLOCK_SIZE)[k]]

\* add.py:30
mask_bug(pid, n) == [k \in 1..BLOCK_SIZE |-> offsets(pid)[k] <= n]
mask(pid, n) == [k \in 1..BLOCK_SIZE |-> offsets(pid)[k] < n]

\* tl.load(ptr + offsets, mask=mask, other=other): masked-off lanes read nothing
tl_load(m, ptr, offs, msk, other) ==
    [k \in 1..BLOCK_SIZE |-> IF msk[k] THEN m[ptr + offs[k]] ELSE other]

\* tl.store(ptr + offsets, value, mask=mask): masked-off lanes write nothing
tl_store(m, ptr, offs, value, msk) ==
    [a \in DOMAIN m |->
        IF \E k \in 1..BLOCK_SIZE : msk[k] /\ ptr + offs[k] = a
        THEN value[CHOOSE k \in 1..BLOCK_SIZE : msk[k] /\ ptr + offs[k] = a]
        ELSE m[a]]

\* add.py:37
vec_add(a, b) == [k \in 1..BLOCK_SIZE |-> a[k] + b[k]]

\* indices a masked access of unit pid touches
Touched(pid, n) == {offsets(pid)[k] : k \in {j \in 1..BLOCK_SIZE : mask(pid, n)[j]}}

(***************************************************************************)
(* Device memory of one launch.  The three buffers are laid out one after  *)
(* the other and followed by guard cells, so that an access past the end   *)
(* of a buffer lands in memory the model can observe.                      *)
(***************************************************************************)
x_ptr(n) == 0
y_ptr(n) == n
output_ptr(n) == 2 * n
HeapSize(n) == 2 * n + (cdiv(n, BLOCK_SIZE) + 2) * BLOCK_SIZE

\* memory right after output = torch.empty_like(x): add.py:60
InitialMem(xd, yd) ==
    LET n == Len(xd) IN
    [a \in 0..(HeapSize(n) - 1) |->
        IF a < n THEN xd[a + 1]
        ELSE IF a < 2 * n THEN yd[a - n + 1]
        ELSE IF a < 3 * n THEN Uninit
        ELSE Guard]

Slice(m, ptr, n) == [i \in 1..n |-> m[ptr + i - 1]]

\* add.py:27-40, one unit from its first line to its last
add_kernel(m, pid, n) ==
    LET offs == offsets(pid)
        msk == mask(pid, n)
        xv == tl_load(m, x_ptr(n), offs, msk, 0)
        yv == tl_load(m, y_ptr(n), offs, msk, 0)
    IN tl_store(m, output_ptr(n), offs, vec_add(xv, yv), msk)

\* add_kernel[grid](...), add.py:68, the units taken one after the other
RECURSIVE LaunchFrom(_, _, _, _)
LaunchFrom(m, pid, g, n) ==
    IF pid >= g THEN m ELSE LaunchFrom(add_kernel(m, pid, n), pid + 1, g, n)

(***************************************************************************)
(* triton_add, add.py:42-70                                                *)
(***************************************************************************)
AllData == UNION {SeqsOfLen(n) : n \in 0..MaxN}
Tensors == {Tensor(d, t, c) : d \in AllData, t \in DTypes, c \in BOOLEAN}

\* add.py:56-58: the first assertion that fails, or "ok"
Precondition_bug(a, b) ==
    IF shape(a) # shape(b) THEN "shape"
    ELSE IF ~(a.cuda /\ b.cuda) THEN "device"
    ELSE "ok"
Precondition(a, b) ==
    IF shape(a) # shape(b) THEN "shape"
    ELSE IF ~(a.cuda /\ b.cuda) THEN "device"
    ELSE IF a.dtype # b.dtype THEN "dtype"
    ELSE "ok"

NoException == [type |-> "none"]
AssertionError(msg) == [type |-> "AssertionError", msg |-> msg]

\* add.py:65
grid_bug(n) == n \div BLOCK_SIZE
grid_of(n) == cdiv(n, BLOCK_SIZE)

Units == 0..(grid - 1)
NoRegs == [k \in 1..BLOCK_SIZE |-> 0]
AllDone == \A p \in Units : pc[p] = "done"

\* nothing of a launch exists yet
KernelIdle ==
    /\ output = None
    /\ raised = NoException
    /\ n_elements = 0
    /\ grid = 0
    /\ mem = <<>>
    /\ pc = <<>>
    /\ regs = <<>>
    /\ accessed = {}
    /\ nstores = <<>>

\* add.py:56-58
TritonAddAssert ==
    /\ tpc = "assert"
    /\ LET p == Precondition(x, y) IN
        IF p = "ok"
        THEN /\ tpc' = "launch"
             /\ raised' = raised
        ELSE /\ tpc' = "raised"
             /\ raised' = AssertionError(p)
    /\ UNCHANGED <<x, y, output, n_elements, grid, mem, pc, regs, accessed, nstores>>
    /\ UNCHANGED <<avars, cvars>>

\* add.py:60-68: allocate the output, compute the grid, launch one unit per block
TritonAddLaunch ==
    /\ tpc = "launch"
    /\ LET n == numel(x) IN
        /\ output' = Tensor([i \in 1..n |-> Uninit], x.dtype, x.cuda)
        /\ n_elements' = n
        /\ grid' = grid_of(n)
        /\ mem' = InitialMem(x.data, y.data)
        /\ pc' = [p \in 0..(grid_of(n) - 1) |-> "load_x"]
        /\ regs' = [p \in 0..(grid_of(n) - 1) |-> [x |-> NoRegs, y |-> NoRegs, output |-> NoRegs]]
        /\ nstores' = [i \in 0..(HeapSize(n) - 2 * n - 1) |-> 0]
    /\ accessed' = {}
    /\ tpc' = "running"
    /\ UNCHANGED <<x, y, raised>>
    /\ UNCHANGED <<avars, cvars>>

Access(pid, op) == {[pid |-> pid, op |-> op, idx |-> i] : i \in Touched(pid, n_elements)}

\* add.py:33
KernelLoadX(pid) ==
    /\ tpc = "running"
    /\ pc[pid] = "load_x"
    /\ regs' = [regs EXCEPT ![pid].x =
                  tl_load(mem, x_ptr(n_elements), offsets(pid), mask(pid, n_elements), 0)]
    /\ accessed' = accessed \cup Access(pid, "load_x")
    /\ pc' = [pc EXCEPT ![pid] = "load_y"]
    /\ UNCHANGED <<x, y, tpc, output, raised, n_elements, grid, mem, nstores>>
    /\ UNCHANGED <<avars, cvars>>

\* add.py:34
KernelLoadY(pid) ==
    /\ tpc = "running"
    /\ pc[pid] = "load_y"
    /\ regs' = [regs EXCEPT ![pid].y =
                  tl_load(mem, y_ptr(n_elements), offsets(pid), mask(pid, n_elements), 0)]
    /\ accessed' = accessed \cup Access(pid, "load_y")
    /\ pc' = [pc EXCEPT ![pid] = "add"]
    /\ UNCHANGED <<x, y, tpc, output, raised, n_elements, grid, mem, nstores>>
    /\ UNCHANGED <<avars, cvars>>

\* add.py:37
KernelAdd(pid) ==
    /\ tpc = "running"
    /\ pc[pid] = "add"
    /\ regs' = [regs EXCEPT ![pid].output = vec_add(regs[pid].x, regs[pid].y)]
    /\ pc' = [pc EXCEPT ![pid] = "store"]
    /\ UNCHANGED <<x, y, tpc, output, raised, n_elements, grid, mem, accessed, nstores>>
    /\ UNCHANGED <<avars, cvars>>

\* add.py:40
KernelStore(pid) ==
    /\ tpc = "running"
    /\ pc[pid] = "store"
    /\ mem' = tl_store(mem, output_ptr(n_elements), offsets(pid), regs[pid].output,
                       mask(pid, n_elements))
    /\ output' = [output EXCEPT !.data = Slice(mem', output_ptr(n_elements), n_elements)]
    /\ accessed' = accessed \cup Access(pid, "store")
    /\ nstores' = [i \in DOMAIN nstores |->
                     IF i \in Touched(pid, n_elements) THEN nstores[i] + 1 ELSE nstores[i]]
    /\ pc' = [pc EXCEPT ![pid] = "done"]
    /\ UNCHANGED <<x, y, tpc, raised, n_elements, grid, regs>>
    /\ UNCHANGED <<avars, cvars>>

\* add.py:70, the output as the caller sees it once the launch has completed
TritonAddReturn ==
    /\ tpc = "running"
    /\ AllDone
    /\ tpc' = "returned"
    /\ UNCHANGED <<x, y, output, raised, n_elements, grid, mem, pc, regs, accessed, nstores>>
    /\ UNCHANGED <<avars, cvars>>

KernelStep ==
    \E pid \in Units :
        \/ KernelLoadX(pid)
        \/ KernelLoadY(pid)
        \/ KernelAdd(pid)
        \/ KernelStore(pid)

\* no call of add() is in progress
AddIdle ==
    /\ entry = "triton_add"
    /\ use_triton = TRUE
    /\ cuda_available = TRUE
    /\ apc = "idle"
    /\ caught = NoException
    /\ events = <<>>
    /\ result = None

\* no run of the command line is in progress
CliIdle ==
    /\ args = None
    /\ env = None
    /\ cpc = "idle"
    /\ exit_code = -1
    /\ stdout = <<>>
    /\ ex = [pc |-> "idle"]
    /\ bm = [pc |-> "idle"]
    /\ vc = [pc |-> "idle"]

\* Spec starts at a call triton_add(x, y) with operands of one length and any
\* dtype and residency (operands of different lengths are called in SpecAdd)
Init ==
    /\ x \in Tensors
    /\ y \in {t \in Tensors : numel(t) = numel(x)}
    /\ tpc = "assert"
    /\ KernelIdle
    /\ AddIdle
    /\ CliIdle

Next ==
    \/ TritonAddAssert
    \/ TritonAddLaunch
    \/ KernelStep
    \/ TritonAddReturn

Spec == Init /\ [][Next]_vars

(***************************************************************************)
(* The dispatcher: triton_add as one call, pytorch_add, add                *)
(* (add.py:42-104).  A call yields [ok, value, exc].                       *)
(***************************************************************************)
Return(v) == [ok |-> TRUE, value |-> v, exc |-> NoException]
Raise(e) == [ok |-> FALSE, value |-> None, exc |-> e]

\* what the Triton runtime raises when compiling or launching the kernel fails
KernelError == [type |-> "KernelError", msg |-> "launch"]
\* what torch.add raises
RuntimeError(msg) == [type |-> "RuntimeError", msg |-> msg]

\* add.py:42-70 from call to return; fault: the launch at add.py:68 fails
triton_add(a, b, fault) ==
    LET p == Precondition(a, b)
        n == numel(a)
    IN IF p # "ok" THEN Raise(AssertionError(p))
       ELSE IF fault THEN Raise(KernelError)
       ELSE Return(Tensor(Slice(LaunchFrom(InitialMem(a.data, b.data), 0, grid_of(n), n),
                                output_ptr(n), n),
                          a.dtype, a.cuda))

\* torch.add on 1-D tensors: operands on one device, shapes equal or one of
\* them of a single element (broadcast), dtypes promoted
Broadcastable(a, b) == numel(a) = numel(b) \/ numel(a) = 1 \/ numel(b) = 1
BroadcastLen(a, b) == IF numel(a) = 1 THEN numel(b) ELSE numel(a)
Elem(t, i) == IF numel(t) = 1 THEN t.data[1] ELSE t.data[i]
Promote(t1, t2) == IF t1 = t2 THEN t1 ELSE "float32"

\* add.py:72-83; fault: the library call itself fails (device error, out of memory)
pytorch_add(a, b, fault) ==
    IF a.cuda # b.cuda THEN Raise(RuntimeError("device"))
    ELSE IF ~Broadcastable(a, b) THEN Raise(RuntimeError("shape"))
    ELSE IF fault THEN Raise(RuntimeError("runtime"))
    ELSE Return(Tensor([i \in 1..BroadcastLen(a, b) |-> Elem(a, i) + Elem(b, i)],
                       Promote(a.dtype, b.dtype), a.cuda))

\* add.py:97
AddCondition_bug(a, b, ut, avail) == ut /\ a.cuda /\ avail
AddCondition(a, b, ut, avail) == ut /\ a.cuda /\ b.cuda /\ avail

Called(f, r) == [call |-> f, ok |-> r.ok]
Warning(e) == [call |-> "logging.warning", exc |-> e]

\* the caller's own call triton_add(x, y)
CallTritonAdd ==
    /\ entry = "triton_add"
    /\ apc = "call"
    /\ \E fault \in BOOLEAN :
        LET r == triton_add(x, y, fault) IN
        /\ events' = Append(events, Called("triton_add", r))
        /\ result' = r.value
        /\ raised' = r.exc
        /\ apc' = IF r.ok THEN "returned" ELSE "raised"
    /\ UNCHANGED <<x, y, tpc, output, n_elements, grid, mem, pc, regs, accessed, nstores>>
    /\ UNCHANGED <<entry, use_triton, cuda_available, caught>>
    /\ UNCHANGED cvars

\* add.py:97
AddDispatch ==
    /\ entry = "add"
    /\ apc = "call"
    /\ apc' = IF AddCondition(x, y, use_triton, cuda_available) THEN "try" ELSE "else"
    /\ UNCHANGED kvars
    /\ UNCHANGED <<entry, use_triton, cuda_available, caught, events, result>>
    /\ UNCHANGED cvars

\* add.py:98-100
AddTry ==
    /\ apc = "try"
    /\ \E fault \in BOOLEAN :
        LET r == triton_add(x, y, fault) IN
        /\ events' = Append(events, Called("triton_add", r))
        /\ result' = r.value
        /\ caught' = r.exc
        /\ apc' = IF r.ok THEN "returned" ELSE "except"
    /\ UNCHANGED kvars
    /\ UNCHANGED <<entry, use_triton, cuda_available>>
    /\ UNCHANGED cvars

\* add.py:101
AddExceptLog ==
    /\ apc = "except"
    /\ events' = Append(events, Warning(caught))
    /\ apc' = "fallback"
    /\ UNCHANGED kvars
    /\ UNCHANGED <<entry, use_triton, cuda_available, caught, result>>
    /\ UNCHANGED cvars

\* the handler calls the kernel executor again instead of the fallback
AddExceptFallback_bug ==
    /\ apc = "fallback"
    /\ \E fault \in BOOLEAN :
        LET r == triton_add(x, y, fault) IN
        /\ events' = Append(events, Called("triton_add", r))
        /\ result' = r.value
        /\ raised' = r.exc
        /\ apc' = IF r.ok THEN "returned" ELSE "raised"
    /\ UNCHANGED <<x, y, tpc, output, n_elements, grid, mem, pc, regs, accessed, nstores>>
    /\ UNCHANGED <<entry, use_triton, cuda_available, caught>>
    /\ UNCHANGED cvars

\* add.py:102; an exception of the fallback leaves add() with the caught one as its context
AddExceptFallback ==
    /\ apc = "fallback"
    /\ \E fault \in BOOLEAN :
        LET r == pytorch_add(x, y, fault) IN
        /\ events' = Append(events, Called("pytorch_add", r))
        /\ result' = r.value
        /\ raised' = IF r.ok THEN NoException
                     ELSE [type |-> r.exc.type, msg |-> r.exc.msg, context |-> caught]
        /\ apc' = IF r.ok THEN "returned" ELSE "raised"
    /\ UNCHANGED <<x, y, tpc, output, n_elements, grid, mem, pc, regs, accessed, nstores>>
    /\ UNCHANGED <<entry, use_triton, cuda_available, caught>>
    /\ UNCHANGED cvars

\* add.py:103-104
AddElse ==
    /\ apc = "else"
    /\ \E fault \in BOOLEAN :
        LET r == pytorch_add(x, y, fault) IN
        /\ events' = Append(events, Called("pytorch_add", r))
        /\ result' = r.value
        /\ raised' = r.exc
        /\ apc' = IF r.ok THEN "returned" ELSE "raised"
    /\ UNCHANGED <<x, y, tpc, output, n_elements, grid, mem, pc, regs, accessed, nstores>>
    /\ UNCHANGED <<entry, use_triton, cuda_available, caught>>
    /\ UNCHANGED cvars

\* operands of a call in SpecAdd: every length, dtype and residency, the data
\* constant or alternating (the patterns of validate_correctness, test.py:145-150)
Patterns(n) == {[i \in 1..n |-> v] : v \in Values} \cup {[i \in 1..n |-> i % 2]}
PatternData == UNION {Patterns(n) : n \in 0..MaxN}
AddTensors == {Tensor(d, t, c) : d \in PatternData, t \in DTypes, c \in BOOLEAN}

\* a tensor is resident on the accelerator only if there is one
InitAdd ==
    /\ x \in AddTensors
    /\ y \in AddTensors
    /\ entry \in {"add", "triton_add"}
    /\ use_triton \in BOOLEAN
    /\ entry = "triton_add" => use_triton
    /\ cuda_available \in BOOLEAN
    /\ (x.cuda \/ y.cuda) => cuda_available
    /\ apc = "call"
    /\ caught = NoException
    /\ events = <<>>
    /\ result = None
    /\ tpc = "idle"
    /\ KernelIdle
    /\ CliIdle

NextAdd ==
    \/ CallTritonAdd
    \/ AddDispatch
    \/ AddTry
    \/ AddExceptLog
    \/ AddExceptFallback
    \/ AddElse

SpecAdd == InitAdd /\ [][NextAdd]_vars


(***************************************************************************)
(* export_torchscript_model, export.py:38-102, and test_exported_model,    *)
(* export.py:104-144.  The exporter's frame ex holds its position, the     *)
(* serialized model, the artifact on disk, the reloaded model, the two     *)
(* results of the verification and the exception in flight.                *)
(***************************************************************************)
Log(level, msg) == [call |-> level, msg |-> msg]
StageError(stage) == [type |-> "Exception", stage |-> stage]

\* torch.allclose(a, b, atol=1e-6) on the integer payloads of the model
allclose(a, b) == a.data = b.data

\* TritonAddModule.forward, export.py:25-36
forward(a, b) == pytorch_add(a, b, FALSE).value

\* what a reloaded artifact computes: the unit's sum, or something else when
\* the artifact does not reproduce the unit
loaded_forward(kind, a, b) ==
    IF kind = "faithful" THEN forward(a, b)
    ELSE [forward(a, b) EXCEPT !.data = [i \in DOMAIN forward(a, b).data |-> forward(a, b).data[i] + 1]]

\* freshly sampled host tensors: torch.randn(n, dtype=torch.float32)
Randn(n) == {Tensor(d, "float32", FALSE) : d \in Patterns(n)}
\* export.py:77-78 samples 100 elements; the model samples SampleLen
SampleLen == BLOCK_SIZE + 1

ExIdle == [pc |-> "idle"]

\* pgl_main.py:41-42 and export.py:38-53: the call and the model instance
ExportBegin ==
    /\ cpc = "export"
    /\ ex = ExIdle
    /\ ex' = [pc |-> "serialize", use_trace |-> args.trace, output_path |-> args.output,
              scripted_model |-> None, disk |-> "none", loaded_model |-> "none",
              original_result |-> None, loaded_result |-> None,
              exc |-> NoException, model |-> None]
    /\ events' = Append(events, Log("logger.info", "export started"))
    /\ UNCHANGED <<kvars, entry, use_triton, cuda_available, apc, caught, result>>
    /\ UNCHANGED <<args, env, cpc, exit_code, stdout, bm, vc>>

\* export.py:55-66: torch.jit.trace on example inputs, or torch.jit.script
ExportSerialize ==
    /\ ex.pc = "serialize"
    /\ \E ok \in BOOLEAN :
        IF ok
        THEN ex' = [ex EXCEPT !.pc = "save",
                              !.scripted_model = [kind |-> IF ex.use_trace THEN "traced" ELSE "scripted"]]
        ELSE ex' = [ex EXCEPT !.pc = "except", !.exc = StageError("serialize")]
    /\ events' = Append(events, Log("logger.info", IF ex.use_trace THEN "trace mode" ELSE "script mode"))
    /\ UNCHANGED <<kvars, entry, use_triton, cuda_available, apc, caught, result>>
    /\ UNCHANGED <<args, env, cpc, exit_code, stdout, bm, vc>>

\* export.py:68-70: scripted_model.save(output_path)
ExportSave ==
    /\ ex.pc = "save"
    /\ \E written \in {"none", "faithful", "unfaithful"} :
        IF written # "none"
        THEN ex' = [ex EXCEPT !.pc = "load", !.disk = written]
        ELSE ex' = [ex EXCEPT !.pc = "except", !.exc = StageError("save")]
    /\ events' = Append(events, Log("logger.info", "saving"))
    /\ UNCHANGED <<kvars, entry, use_triton, cuda_available, apc, caught, result>>
    /\ UNCHANGED <<args, env, cpc, exit_code, stdout, bm, vc>>

\* export.py:72-74: torch.jit.load(output_path)
ExportLoad ==
    /\ ex.pc = "load"
    /\ \E ok \in BOOLEAN :
        IF ok
        THEN ex' = [ex EXCEPT !.pc = "run", !.loaded_model = ex.disk]
        ELSE ex' = [ex EXCEPT !.pc = "except", !.exc = StageError("load")]
    /\ events' = Append(events, Log("logger.info", "verifying"))
    /\ UNCHANGED <<kvars, entry, use_triton, cuda_available, apc, caught, result>>
    /\ UNCHANGED <<args, env, cpc, exit_code, stdout, bm, vc>>

\* export.py:76-83: both units on fresh inputs
ExportRun ==
    /\ ex.pc = "run"
    /\ \E test_x \in Randn(SampleLen), test_y \in Randn(SampleLen), ok \in BOOLEAN :
        IF ok
        THEN ex' = [ex EXCEPT !.pc = "verify",
                              !.original_result = forward(test_x, test_y),
                              !.loaded_result = loaded_forward(ex.loaded_model, test_x, test_y)]
        ELSE ex' = [ex EXCEPT !.pc = "except", !.exc = StageError("run")]
    /\ UNCHANGED <<kvars, avars>>
    /\ UNCHANGED <<args, env, cpc, exit_code, stdout, bm, vc>>

\* the verification fails closed: a mismatch raises
ExportVerify_bug ==
    /\ ex.pc = "verify"
    /\ IF allclose(ex.original_result, ex.loaded_result)
       THEN /\ ex' = [ex EXCEPT !.pc = "returned", !.model = ex.scripted_model]
            /\ events' = events \o <<Log("logger.info", "verified"), Log("logger.info", "export done")>>
       ELSE /\ ex' = [ex EXCEPT !.pc = "except", !.exc = StageError("verify")]
            /\ events' = events
    /\ UNCHANGED <<kvars, entry, use_triton, cuda_available, apc, caught, result>>
    /\ UNCHANGED <<args, env, cpc, exit_code, stdout, bm, vc>>

\* export.py:85-92: compare, log the verdict, return the serialized model
ExportVerify ==
    /\ ex.pc = "verify"
    /\ events' = events \o
          <<IF allclose(ex.original_result, ex.loaded_result)
            THEN Log("logger.info", "verified")
            ELSE Log("logger.warning", "verification mismatch"),
            Log("logger.info", "export done")>>
    /\ ex' = [ex EXCEPT !.pc = "returned", !.model = ex.scripted_model]
    /\ UNCHANGED <<kvars, entry, use_triton, cuda_available, apc, caught, result>>
    /\ UNCHANGED <<args, env, cpc, exit_code, stdout, bm, vc>>

\* export.py:94-98: log, print the traceback, re-raise
ExportExcept ==
    /\ ex.pc = "except"
    /\ events' = events \o <<Log("logger.error", ex.exc.stage), Log("traceback.print_exc", ex.exc.stage)>>
    /\ ex' = [ex EXCEPT !.pc = "raised"]
    /\ UNCHANGED <<kvars, entry, use_triton, cuda_available, apc, caught, result>>
    /\ UNCHANGED <<args, env, cpc, exit_code, stdout, bm, vc>>

\* export.py:119-122, the three cases test_exported_model feeds the model:
\* randn + randn, zeros + ones, full(0.5) + full(-0.5) (payloads in halves)
ModelTestCases(rx, ry) ==
    <<<<rx, ry>>,
      <<Tensor([i \in 1..SampleLen |-> 0], "float32", FALSE), Tensor([i \in 1..SampleLen |-> 2], "float32", FALSE)>>,
      <<Tensor([i \in 1..SampleLen |-> 1], "float32", FALSE), Tensor([i \in 1..SampleLen |-> 0 - 1], "float32", FALSE)>>>>

\* export.py:104-144: the file at model_path is missing, or an artifact that
\* does or does not reproduce the unit; any exception ends in False
test_exported_model(file, rx, ry) ==
    IF file = "missing" THEN FALSE
    ELSE \A c \in 1..3 :
            LET a == ModelTestCases(rx, ry)[c][1]
                b == ModelTestCases(rx, ry)[c][2]
            IN allclose(loaded_forward(file, a, b), forward(a, b))


(***************************************************************************)
(* validate_correctness, test.py:119-174                                   *)
(***************************************************************************)
\* test.py:130 tests [100, 1000, 10000]; the model keeps three sizes: below a
\* block, one block and a part, two blocks and a part
DefaultValidateSizes == <<BLOCK_SIZE - 1, BLOCK_SIZE + 1, 2 * BLOCK_SIZE + 1>>

\* torch.randn(size, device='cuda', dtype=torch.float32)
RandnCuda(n) == {Tensor(d, "float32", TRUE) : d \in Patterns(n)}
Full(n, v) == Tensor([i \in 1..n |-> v], "float32", TRUE)

\* test.py:145-150: randn, zeros, ones, full(0.5) (constant payloads in halves)
ValidateTestCases(n, r) == <<r, Full(n, 0), Full(n, 2), Full(n, 1)>>

VcIdle == [pc |-> "idle"]

\* test.py:129-139
ValidateBegin ==
    /\ cpc = "validate"
    /\ vc = VcIdle
    /\ IF ~cuda_available
       THEN /\ events' = Append(events, Log("logger.warning", "CUDA unavailable"))
            /\ vc' = [pc |-> "returned", result |-> FALSE]
       ELSE /\ events' = events
            /\ vc' = [pc |-> "case", sizes |-> DefaultValidateSizes, i |-> 1, c |-> 1,
                      all_passed |-> TRUE]
    /\ UNCHANGED <<kvars, entry, use_triton, cuda_available, apc, caught, result>>
    /\ UNCHANGED <<args, env, cpc, exit_code, stdout, ex, bm>>

\* test.py:141-172: one test case of one size, from the operands to the verdict
ValidateCase ==
    /\ vc.pc = "case"
    /\ vc.i <= Len(vc.sizes)
    /\ \E r \in RandnCuda(vc.sizes[vc.i]), b \in RandnCuda(vc.sizes[vc.i]) :
        LET a == ValidateTestCases(vc.sizes[vc.i], r)[vc.c]
            t == triton_add(a, b, ~env.triton_ok)
            q == pytorch_add(a, b, FALSE)
            expected == Tensor([i \in 1..numel(a) |-> a.data[i] + b.data[i]], a.dtype, a.cuda)
            passed == /\ t.ok
                      /\ q.ok
                      /\ allclose(t.value, q.value)
                      /\ allclose(t.value, expected)
        IN /\ events' = events \o
                  (IF ~t.ok THEN <<Called("triton_add", t), Log("logger.error", "validation error")>>
                   ELSE IF passed THEN <<Called("triton_add", t), Called("pytorch_add", q)>>
                   ELSE <<Called("triton_add", t), Called("pytorch_add", q),
                          Log("logger.error", "validation failed")>>)
           /\ vc' = [vc EXCEPT !.all_passed = vc.all_passed /\ passed,
                               !.c = IF vc.c = 4 THEN 1 ELSE vc.c + 1,
                               !.i = IF vc.c = 4 THEN vc.i + 1 ELSE vc.i]
    /\ UNCHANGED <<kvars, entry, use_triton, cuda_available, apc, caught, result>>
    /\ UNCHANGED <<args, env, cpc, exit_code, stdout, ex, bm>>

\* test.py:174
ValidateReturn ==
    /\ vc.pc = "case"
    /\ vc.i > Len(vc.sizes)
    /\ vc' = [pc |-> "returned", result |-> vc.all_passed]
    /\ UNCHANGED <<kvars, avars>>
    /\ UNCHANGED <<args, env, cpc, exit_code, stdout, ex, bm>>

(***************************************************************************)
(* benchmark_add_operations, test.py:26-117                                *)
(***************************************************************************)
\* test.py:38 tests [1000, 10000, 100000, 1000000]; the model keeps two sizes
DefaultBenchSizes == <<BLOCK_SIZE - 1, BLOCK_SIZE + 1>>
\* test.py:26, num_runs: int = 10
NumRuns == 2
\* test.py:65
WarmupRuns == 3
\* a measured end_time - start_time, in clock ticks
Elapsed == {0, 1}

RECURSIVE Sum(_)
Sum(q) == IF q = <<>> THEN 0 ELSE Head(q) + Sum(Tail(q))

\* np.mean(times) * 1000 as the fraction it is
Mean1000(q) == [num |-> Sum(q) * 1000, den |-> Len(q)]
\* test.py:93
Speedup(avg_triton, avg_pytorch) ==
    IF avg_triton.num > 0
    THEN [num |-> avg_pytorch.num * avg_triton.den, den |-> avg_pytorch.den * avg_triton.num]
    ELSE [num |-> 0, den |-> 1]

Synchronize == [call |-> "torch.cuda.synchronize"]
PerfCounter == [call |-> "time.perf_counter"]

BmIdle == [pc |-> "idle"]
\* test.py:40-46
EmptyResults(sizes) ==
    [sizes |-> sizes, triton_times |-> <<>>, pytorch_times |-> <<>>,
     speedup_ratios |-> <<>>, accuracy_checks |-> <<>>]

BmFrame(pc0, sizes) ==
    [pc |-> pc0, results |-> EmptyResults(sizes), num_runs |-> NumRuns, i |-> 1, k |-> 0,
     x |-> None, y |-> None, triton_times |-> <<>>, pytorch_times |-> <<>>,
     triton_result |-> None, pytorch_result |-> None, exc |-> NoException]

\* the availability guard is missing
BenchmarkBegin_bug ==
    /\ cpc = "benchmark"
    /\ bm = BmIdle
    /\ events' = Append(events, Log("logger.info", "benchmark started"))
    /\ bm' = BmFrame("size", DefaultBenchSizes)
    /\ UNCHANGED <<kvars, entry, use_triton, cuda_available, apc, caught, result>>
    /\ UNCHANGED <<args, env, cpc, exit_code, stdout, ex, vc>>

\* test.py:37-55
BenchmarkBegin ==
    /\ cpc = "benchmark"
    /\ bm = BmIdle
    /\ IF ~cuda_available
       THEN /\ events' = Append(events, Log("logger.warning", "CUDA unavailable"))
            /\ bm' = BmFrame("returned", DefaultBenchSizes)
       ELSE /\ events' = Append(events, Log("logger.info", "benchmark started"))
            /\ bm' = BmFrame("size", DefaultBenchSizes)
    /\ UNCHANGED <<kvars, entry, use_triton, cuda_available, apc, caught, result>>
    /\ UNCHANGED <<args, env, cpc, exit_code, stdout, ex, vc>>

\* test.py:57-62: the next size and its operands
BenchmarkSize ==
    /\ bm.pc = "size"
    /\ bm.i <= Len(bm.results.sizes)
    /\ \E a \in RandnCuda(bm.results.sizes[bm.i]), b \in RandnCuda(bm.results.sizes[bm.i]) :
        bm' = [bm EXCEPT !.pc = "warmup", !.x = a, !.y = b, !.k = 0,
                         !.triton_times = <<>>, !.pytorch_times = <<>>]
    /\ events' = Append(events, Log("logger.info", "size"))
    /\ UNCHANGED <<kvars, entry, use_triton, cuda_available, apc, caught, result>>
    /\ UNCHANGED <<args, env, cpc, exit_code, stdout, ex, vc>>

\* test.py:65-67: one warm-up iteration, both executors
BenchmarkWarmup ==
    /\ bm.pc = "warmup"
    /\ bm.k < WarmupRuns
    /\ LET t == triton_add(bm.x, bm.y, ~env.triton_ok)
           q == pytorch_add(bm.x, bm.y, FALSE)
       IN IF t.ok
          THEN /\ events' = events \o <<Called("triton_add", t), Called("pytorch_add", q)>>
               /\ bm' = [bm EXCEPT !.k = bm.k + 1]
          ELSE /\ events' = events \o <<Called("triton_add", t)>>
               /\ bm' = [bm EXCEPT !.pc = "raised", !.exc = t.exc]
    /\ UNCHANGED <<kvars, entry, use_triton, cuda_available, apc, caught, result>>
    /\ UNCHANGED <<args, env, cpc, exit_code, stdout, ex, vc>>

\* test.py:68
BenchmarkWarmupSync ==
    /\ bm.pc = "warmup"
    /\ bm.k >= WarmupRuns
    /\ events' = Append(events, Synchronize)
    /\ bm' = [bm EXCEPT !.pc = "time_triton", !.k = 0]
    /\ UNCHANGED <<kvars, entry, use_triton, cuda_available, apc, caught, result>>
    /\ UNCHANGED <<args, env, cpc, exit_code, stdout, ex, vc>>

\* the barrier between the launch and the end timestamp is missing
BenchmarkTimeTriton_bug ==
    /\ bm.pc = "time_triton"
    /\ bm.k < bm.num_runs
    /\ \E d \in Elapsed :
        LET t == triton_add(bm.x, bm.y, ~env.triton_ok) IN
        IF t.ok
        THEN /\ events' = events \o
                  <<Synchronize, PerfCounter, Called("triton_add", t), PerfCounter>>
             /\ bm' = [bm EXCEPT !.k = bm.k + 1, !.triton_result = t.value,
                                 !.triton_times = Append(bm.triton_times, d)]
        ELSE /\ events' = events \o <<Synchronize, PerfCounter, Called("triton_add", t)>>
             /\ bm' = [bm EXCEPT !.pc = "raised", !.exc = t.exc]
    /\ UNCHANGED <<kvars, entry, use_triton, cuda_available, apc, caught, result>>
    /\ UNCHANGED <<args, env, cpc, exit_code, stdout, ex, vc>>

\* test.py:72-78: one timed run of the kernel executor
BenchmarkTimeTriton ==
    /\ bm.pc = "time_triton"
    /\ bm.k < bm.num_runs
    /\ \E d \in Elapsed :
        LET t == triton_add(bm.x, bm.y, ~env.triton_ok) IN
        IF t.ok
        THEN /\ events' = events \o
                  <<Synchronize, PerfCounter, Called("triton_add", t), Synchronize, PerfCounter>>
             /\ bm' = [bm EXCEPT !.k = bm.k + 1, !.triton_result = t.value,
                                 !.triton_times = Append(bm.triton_times, d)]
        ELSE /\ events' = events \o <<Synchronize, PerfCounter, Called("triton_add", t)>>
             /\ bm' = [bm EXCEPT !.pc = "raised", !.exc = t.exc]
    /\ UNCHANGED <<kvars, entry, use_triton, cuda_available, apc, caught, result>>
    /\ UNCHANGED <<args, env, cpc, exit_code, stdout, ex, vc>>

\* test.py:81: the second timed loop starts
BenchmarkTritonTimed ==
    /\ bm.pc = "time_triton"
    /\ bm.k >= bm.num_runs
    /\ bm' = [bm EXCEPT !.pc = "time_pytorch", !.k = 0]
    /\ UNCHANGED <<kvars, avars>>
    /\ UNCHANGED <<args, env, cpc, exit_code, stdout, ex, vc>>

\* test.py:82-88: one timed run of the fallback executor
BenchmarkTimePytorch ==
    /\ bm.pc = "time_pytorch"
    /\ bm.k < bm.num_runs
    /\ \E d \in Elapsed :
        LET q == pytorch_add(bm.x, bm.y, FALSE) IN
        /\ events' = events \o
              <<Synchronize, PerfCounter, Called("pytorch_add", q), Synchronize, PerfCounter>>
        /\ bm' = [bm EXCEPT !.k = bm.k + 1, !.pytorch_result = q.value,
                            !.pytorch_times = Append(bm.pytorch_times, d)]
    /\ UNCHANGED <<kvars, entry, use_triton, cuda_available, apc, caught, result>>
    /\ UNCHANGED <<args, env, cpc, exit_code, stdout, ex, vc>>

\* test.py:90-115: the statistics and the accuracy check of the size
BenchmarkStats ==
    /\ bm.pc = "time_pytorch"
    /\ bm.k >= bm.num_runs
    /\ LET avg_triton_time == Mean1000(bm.triton_times)
           avg_pytorch_time == Mean1000(bm.pytorch_times)
           speedup == Speedup(avg_triton_time, avg_pytorch_time)
           accuracy_check == allclose(bm.triton_result, bm.pytorch_result)
       IN bm' = [bm EXCEPT
                   !.results.triton_times = Append(bm.results.triton_times, avg_triton_time),
                   !.results.pytorch_times = Append(bm.results.pytorch_times, avg_pytorch_time),
                   !.results.speedup_ratios = Append(bm.results.speedup_ratios, speedup),
                   !.results.accuracy_checks = Append(bm.results.accuracy_checks, accuracy_check),
                   !.pc = "size", !.i = bm.i + 1, !.k = 0]
    /\ events' = Append(events, Log("logger.info", "size measured"))
    /\ UNCHANGED <<kvars, entry, use_triton, cuda_available, apc, caught, result>>
    /\ UNCHANGED <<args, env, cpc, exit_code, stdout, ex, vc>>

\* test.py:117
BenchmarkReturn ==
    /\ bm.pc = "size"
    /\ bm.i > Len(bm.results.sizes)
    /\ bm' = [bm EXCEPT !.pc = "returned"]
    /\ UNCHANGED <<kvars, avars>>
    /\ UNCHANGED <<args, env, cpc, exit_code, stdout, ex, vc>>


(***************************************************************************)
(* main, pgl_main.py:15-80.  A run ends with cpc = "done" and the exit code *)
(* of the process: 0 when main returns, 1 after sys.exit(1) or when an     *)
(* exception leaves main.                                                  *)
(***************************************************************************)
Line(text) == [line |-> text]
Traceback(e) == [line |-> "Traceback", exc |-> e]
IndexError == [type |-> "IndexError", msg |-> "list index out of range"]

\* pgl_main.py:19-38: the command lines argparse accepts
ArgsSet ==
    {[command |-> "export", output |-> "triton_add_model.pt", trace |-> t] : t \in BOOLEAN}
    \cup {[command |-> "test", model |-> "triton_add_model.pt", correctness |-> c, benchmark |-> b] :
             c \in BOOLEAN, b \in BOOLEAN}
    \cup {[command |-> "info"], [command |-> "none"]}

\* pgl_main.py:40-42
MainExport ==
    /\ cpc = "start"
    /\ args.command = "export"
    /\ cpc' = "export"
    /\ UNCHANGED <<kvars, avars>>
    /\ UNCHANGED <<args, env, exit_code, stdout, ex, bm, vc>>

\* pgl_main.py:43
MainExportReturned ==
    /\ cpc = "export"
    /\ ex.pc = "returned"
    /\ stdout' = Append(stdout, Line("export succeeded"))
    /\ cpc' = "exit"
    /\ UNCHANGED <<kvars, avars>>
    /\ UNCHANGED <<args, env, exit_code, ex, bm, vc>>

\* the handler prints the failure and main goes on to its end
MainExportFailed_bug ==
    /\ cpc = "export"
    /\ ex.pc = "raised"
    /\ stdout' = Append(stdout, Line("export failed"))
    /\ cpc' = "exit"
    /\ UNCHANGED <<kvars, avars>>
    /\ UNCHANGED <<args, env, exit_code, ex, bm, vc>>

\* pgl_main.py:44-46
MainExportFailed ==
    /\ cpc = "export"
    /\ ex.pc = "raised"
    /\ stdout' = Append(stdout, Line("export failed"))
    /\ exit_code' = 1
    /\ cpc' = "done"
    /\ UNCHANGED <<kvars, avars>>
    /\ UNCHANGED <<args, env, ex, bm, vc>>

\* pgl_main.py:48-52
MainTestCorrectness ==
    /\ cpc = "start"
    /\ args.command = "test"
    /\ IF args.correctness
       THEN /\ stdout' = Append(stdout, Line("correctness header"))
            /\ cpc' = "validate"
       ELSE /\ stdout' = stdout
            /\ cpc' = "test_benchmark"
    /\ UNCHANGED <<kvars, avars>>
    /\ UNCHANGED <<args, env, exit_code, ex, bm, vc>>

\* pgl_main.py:53
MainCorrectnessPrint ==
    /\ cpc = "validate"
    /\ vc.pc = "returned"
    /\ stdout' = Append(stdout, Line(IF vc.result THEN "correctness passed" ELSE "correctness failed"))
    /\ cpc' = "test_benchmark"
    /\ UNCHANGED <<kvars, avars>>
    /\ UNCHANGED <<args, env, exit_code, ex, bm, vc>>

\* pgl_main.py:55-58
MainTestBenchmark ==
    /\ cpc = "test_benchmark"
    /\ IF args.benchmark
       THEN /\ stdout' = Append(stdout, Line("benchmark header"))
            /\ cpc' = "benchmark"
       ELSE /\ stdout' = stdout
            /\ cpc' = "test_model"
    /\ UNCHANGED <<kvars, avars>>
    /\ UNCHANGED <<args, env, exit_code, ex, bm, vc>>

\* pgl_main.py:62-66: the summary line of sizes[i] reads index i of three lists
SummaryReadable(r, i) ==
    /\ i <= Len(r.triton_times)
    /\ i <= Len(r.pytorch_times)
    /\ i <= Len(r.speedup_ratios)
SummaryLine(r, i) ==
    [line |-> "summary", size |-> r.sizes[i], triton |-> r.triton_times[i],
     pytorch |-> r.pytorch_times[i], speedup |-> r.speedup_ratios[i]]
\* the lines printed before the loop ends or an index is out of range
SummaryPrinted(r) ==
    LET bad == {i \in 1..Len(r.sizes) : ~SummaryReadable(r, i)}
        last == IF bad = {} THEN Len(r.sizes)
                ELSE (CHOOSE i \in bad : \A j \in bad : i <= j) - 1
    IN [i \in 1..last |-> SummaryLine(r, i)]
SummaryRaises(r) == \E i \in 1..Len(r.sizes) : ~SummaryReadable(r, i)

\* pgl_main.py:60-66: the result summary; an IndexError leaves main uncaught
MainBenchmarkSummary ==
    /\ cpc = "benchmark"
    /\ bm.pc = "returned"
    /\ LET r == bm.results IN
       IF r.sizes = <<>>
       THEN /\ stdout' = stdout
            /\ cpc' = "test_model"
            /\ exit_code' = exit_code
       ELSE IF SummaryRaises(r)
       THEN /\ stdout' = stdout \o <<Line("summary header")>> \o SummaryPrinted(r)
                                \o <<Traceback(IndexError)>>
            /\ cpc' = "done"
            /\ exit_code' = 1
       ELSE /\ stdout' = stdout \o <<Line("summary header")>> \o SummaryPrinted(r)
            /\ cpc' = "test_model"
            /\ exit_code' = exit_code
    /\ UNCHANGED <<kvars, avars>>
    /\ UNCHANGED <<args, env, ex, bm, vc>>

\* pgl_main.py:58: an exception of benchmark_add_operations leaves main uncaught
MainBenchmarkRaised ==
    /\ cpc = "benchmark"
    /\ bm.pc = "raised"
    /\ stdout' = Append(stdout, Traceback(bm.exc))
    /\ cpc' = "done"
    /\ exit_code' = 1
    /\ UNCHANGED <<kvars, avars>>
    /\ UNCHANGED <<args, env, ex, bm, vc>>

\* pgl_main.py:68-72
MainTestModel ==
    /\ cpc = "test_model"
    /\ IF ~(args.correctness \/ args.benchmark)
       THEN \E rx \in Randn(SampleLen), ry \in Randn(SampleLen) :
              stdout' = stdout \o
                  <<Line("model header"),
                    Line(IF test_exported_model(env.model_file, rx, ry)
                         THEN "model passed" ELSE "model failed")>>
       ELSE stdout' = stdout
    /\ cpc' = "exit"
    /\ UNCHANGED <<kvars, avars>>
    /\ UNCHANGED <<args, env, exit_code, ex, bm, vc>>

\* pgl_main.py:74-76 and print_system_info, test.py:176-199
MainInfo ==
    /\ cpc = "start"
    /\ args.command = "info"
    /\ events' = events \o
          <<Log("logger.info", "torch version"),
            Log("logger.info", IF cuda_available THEN "cuda available" ELSE "cuda unavailable")>>
    /\ cpc' = "exit"
    /\ UNCHANGED <<kvars, entry, use_triton, cuda_available, apc, caught, result>>
    /\ UNCHANGED <<args, env, exit_code, stdout, ex, bm, vc>>

\* pgl_main.py:78-79
MainHelp ==
    /\ cpc = "start"
    /\ args.command = "none"
    /\ stdout' = Append(stdout, Line("help"))
    /\ cpc' = "exit"
    /\ UNCHANGED <<kvars, avars>>
    /\ UNCHANGED <<args, env, exit_code, ex, bm, vc>>

\* main returns and the interpreter exits
MainExit ==
    /\ cpc = "exit"
    /\ exit_code' = 0
    /\ cpc' = "done"
    /\ UNCHANGED <<kvars, avars>>
    /\ UNCHANGED <<args, env, stdout, ex, bm, vc>>

\* a run of the command line: any accepted arguments; an accelerator or not;
\* with an accelerator, kernel launches that work or fail; at the model path
\* no file, or an artifact that does or does not reproduce the unit
InitCli ==
    /\ args \in ArgsSet
    /\ cuda_available \in BOOLEAN
    /\ env \in [triton_ok : BOOLEAN, model_file : {"missing", "faithful", "unfaithful"}]
    /\ env.triton_ok => cuda_available
    /\ cpc = "start"
    /\ exit_code = -1
    /\ stdout = <<>>
    /\ ex = ExIdle
    /\ bm = BmIdle
    /\ vc = VcIdle
    /\ x = None
    /\ y = None
    /\ tpc = "idle"
    /\ KernelIdle
    /\ entry = "main"
    /\ use_triton = TRUE
    /\ apc = "idle"
    /\ caught = NoException
    /\ events = <<>>
    /\ result = None

NextCli ==
    \/ MainExport
    \/ ExportBegin
    \/ ExportSerialize
    \/ ExportSave
    \/ ExportLoad
    \/ ExportRun
    \/ ExportVerify
    \/ ExportExcept
    \/ MainExportReturned
    \/ MainExportFailed
    \/ MainTestCorrectness
    \/ ValidateBegin
    \/ ValidateCase
    \/ ValidateReturn
    \/ MainCorrectnessPrint
    \/ MainTestBenchmark
    \/ BenchmarkBegin
    \/ BenchmarkSize
    \/ BenchmarkWarmup
    \/ BenchmarkWarmupSync
    \/ BenchmarkTimeTriton
    \/ BenchmarkTritonTimed
    \/ BenchmarkTimePytorch
    \/ BenchmarkStats
    \/ BenchmarkReturn
    \/ MainBenchmarkSummary
    \/ MainBenchmarkRaised
    \/ MainTestModel
    \/ MainInfo
    \/ MainHelp
    \/ MainExit

SpecCli == InitCli /\ [][NextCli]_vars

(***************************************************************************)
(* benchmark_add_operations() called on its own, with its default sizes    *)
(* and num_runs, as test.py:212 calls it.                                  *)
(***************************************************************************)
\* no command line is parsed and no model file is read on this path
InitBench ==
    /\ args = [command |-> "none"]
    /\ cuda_available \in BOOLEAN
    /\ env \in [triton_ok : BOOLEAN, model_file : {"missing"}]
    /\ env.triton_ok => cuda_available
    /\ cpc = "benchmark"
    /\ exit_code = -1
    /\ stdout = <<>>
    /\ ex = ExIdle
    /\ bm = BmIdle
    /\ vc = VcIdle
    /\ x = None
    /\ y = None
    /\ tpc = "idle"
    /\ KernelIdle
    /\ entry = "benchmark_add_operations"
    /\ use_triton = TRUE
    /\ apc = "idle"
    /\ caught = NoException
    /\ events = <<>>
    /\ result = None

NextBench ==
    \/ BenchmarkBegin
    \/ BenchmarkSize
    \/ BenchmarkWarmup
    \/ BenchmarkWarmupSync
    \/ BenchmarkTimeTriton
    \/ BenchmarkTritonTimed
    \/ BenchmarkTimePytorch
    \/ BenchmarkStats
    \/ BenchmarkReturn

SpecBench == InitBench /\ [][NextBench]_vars


(***************************************************************************)
(* Properties of one kernel launch (checked under Spec)                    *)
(***************************************************************************)
Launched == tpc \in {"running", "returned"}
LastUnit == grid - 1
PartialBlock == n_elements % BLOCK_SIZE # 0

\* C1: once every one of the ceil(n / BLOCK_SIZE) units has run and triton_add
\* has returned, the output has the operands' length, dtype and residency and
\* out[i] = x[i] + y[i] for every i in [0, n); at any time of the launch the
\* device copies of x and y are what the caller passed.
C1_OutputIsElementwiseSum ==
    /\ Launched =>
        /\ grid * BLOCK_SIZE >= numel(x)
        /\ (grid - 1) * BLOCK_SIZE < numel(x) \/ grid = 0
        /\ Slice(mem, x_ptr(n_elements), n_elements) = x.data
        /\ Slice(mem, y_ptr(n_elements), n_elements) = y.data
    /\ tpc = "returned" =>
        /\ numel(output) = numel(x)
        /\ output.dtype = x.dtype
        /\ output.cuda = x.cuda
        /\ \A i \in 1..numel(x) : output.data[i] = x.data[i] + y.data[i]

\* a launch with a partial final block behind two full ones has returned a nonzero sum
C1_Witness ==
    /\ tpc = "returned"
    /\ PartialBlock
    /\ n_elements > BLOCK_SIZE
    /\ output.data[n_elements] = 2

\* C2: no unit reads or writes an index >= n; with a partial final block the
\* last unit's store reaches index n-1 and nothing is stored at n .. grid*B-1,
\* and memory outside the three buffers is never changed.
C2_NoOutOfBoundsAccess ==
    Launched =>
        /\ \A a \in accessed : a.idx >= 0 /\ a.idx < n_elements
        /\ \A i \in DOMAIN nstores : i >= n_elements => nstores[i] = 0
        /\ \A a \in DOMAIN mem : a >= 3 * n_elements => mem[a] = Guard
        /\ (PartialBlock /\ pc[LastUnit] = "done") =>
              /\ [pid |-> LastUnit, op |-> "store", idx |-> n_elements - 1] \in accessed
              /\ nstores[n_elements - 1] = 1

\* the last unit of a launch with a partial final block has stored
C2_Witness ==
    /\ tpc = "running"
    /\ PartialBlock
    /\ pc[LastUnit] = "done"
    /\ \E p \in Units : pc[p] # "done"

BlockRange(p) == {i \in 0..(n_elements - 1) : p * BLOCK_SIZE <= i /\ i < (p + 1) * BLOCK_SIZE}
StoredBy(p) == {a.idx : a \in {b \in accessed : b.pid = p /\ b.op = "store"}}

\* C10: unit p touches only [p*B, (p+1)*B) /\ [0, n); distinct units touch
\* disjoint indices; once all units are done their stores cover [0, n) with
\* exactly one store per element, and the memory is what running the units one
\* after the other gives, whatever the interleaving was.
C10_UnitsAreIndependent ==
    Launched =>
        /\ \A a \in accessed : a.idx \in BlockRange(a.pid)
        /\ \A a, b \in accessed : a.pid # b.pid => a.idx # b.idx
        /\ \A i \in DOMAIN nstores : nstores[i] <= 1
        /\ \A p \in Units : pc[p] = "done" => StoredBy(p) = BlockRange(p)
        /\ AllDone =>
            /\ UNION {StoredBy(p) : p \in Units} = 0..(n_elements - 1)
            /\ \A i \in 0..(n_elements - 1) : nstores[i] = 1
            /\ mem = LaunchFrom(InitialMem(x.data, y.data), 0, grid, n_elements)

\* a later unit has finished while an earlier one has not yet loaded
C10_Witness ==
    /\ tpc = "running"
    /\ grid >= 2
    /\ pc[LastUnit] = "done"
    /\ pc[0] = "load_x"

(***************************************************************************)
(* Properties of the dispatcher (checked under SpecAdd)                    *)
(***************************************************************************)
Finished == apc \in {"returned", "raised"}
Calls(f) == {i \in 1..Len(events) : events[i].call = f}
Violation ==
    \/ Len(x.data) # Len(y.data)
    \/ x.dtype # y.dtype
    \/ ~x.cuda
    \/ ~y.cuda

\* C3 as stated: a precondition violation (shape, dtype, residency) makes the
\* call fail and reach the caller, with no retry and no fallback, for
\* triton_add called directly and for add() when it routes to triton_add.
C3_ViolationNeverRecovered ==
    (Violation /\ Calls("triton_add") # {}) =>
        /\ Calls("pytorch_add") = {}
        /\ apc # "returned"
        /\ apc = "raised" => raised.type = "AssertionError"

\* C3 amended: a precondition violation makes triton_add fail with an
\* AssertionError whatever the launch would have done, and triton_add itself
\* makes no second attempt; called directly, the failure is what the caller
\* gets.  When add() routes to triton_add (only a shape or dtype mismatch can
\* get there), add() catches the AssertionError, logs a warning and calls
\* pytorch_add once: the caller gets pytorch_add's result, or pytorch_add's
\* error with the AssertionError as its context.
C3_ViolationFailsTritonAddOnly ==
    Violation =>
        /\ (entry = "triton_add" /\ apc # "call") =>
            /\ apc = "raised"
            /\ raised.type = "AssertionError"
            /\ result = None
            /\ events = <<[call |-> "triton_add", ok |-> FALSE]>>
        /\ (entry = "add" /\ Calls("triton_add") # {}) =>
            /\ x.cuda /\ y.cuda
            /\ caught.type = "AssertionError"
            /\ events[1] = [call |-> "triton_add", ok |-> FALSE]
            /\ Cardinality(Calls("triton_add")) = 1
            /\ apc \in {"except", "fallback", "returned", "raised"}
            /\ Finished =>
                /\ Len(events) = 3
                /\ events[2] = Warning(caught)
                /\ events[3].call = "pytorch_add"
            /\ apc = "returned" => result = pytorch_add(x, y, FALSE).value
            /\ apc = "raised" => (raised.type = "RuntimeError" /\ raised.context = caught)

\* add() was routed to triton_add with operands of different dtypes and returned a sum
C3_Witness ==
    /\ entry = "add"
    /\ x.dtype # y.dtype
    /\ numel(x) = numel(y)
    /\ numel(x) > BLOCK_SIZE
    /\ caught.type = "AssertionError"
    /\ apc = "returned"
    /\ result.data = [i \in 1..numel(x) |-> x.data[i] + y.data[i]]

\* C4: add() attempts triton_add iff use_triton and x on the accelerator and y
\* on the accelerator and an accelerator is available; otherwise it calls
\* pytorch_add directly and triton_add is never invoked.
C4_KernelAttemptedIffEligible ==
    (entry = "add" /\ apc # "call") =>
        LET eligible == use_triton /\ x.cuda /\ y.cuda /\ cuda_available IN
        /\ (apc = "try" \/ Calls("triton_add") # {}) <=> eligible
        /\ ~eligible =>
            /\ Calls("triton_add") = {}
            /\ Calls("logging.warning") = {}
            /\ apc \in {"else", "returned", "raised"}
            /\ Finished => (Len(events) = 1 /\ events[1].call = "pytorch_add")

\* add(x, y, use_triton=False) on accelerator-resident operands returned the fallback's sum
C4_Witness ==
    /\ entry = "add"
    /\ ~use_triton
    /\ x.cuda /\ y.cuda /\ cuda_available
    /\ apc = "returned"
    /\ numel(x) > 0
    /\ events = <<[call |-> "pytorch_add", ok |-> TRUE]>>

\* C5: when the kernel attempt of add() fails, add() logs a warning, then
\* calls pytorch_add on the same operands and returns exactly its result;
\* triton_add and pytorch_add are each called at most once in a call of
\* add(), and the caller sees an exception only if pytorch_add failed too.
C5_SingleAttemptDegrade ==
    entry = "add" =>
        /\ Cardinality(Calls("triton_add")) <= 1
        /\ Cardinality(Calls("pytorch_add")) <= 1
        /\ caught # NoException =>
            /\ apc \in {"except", "fallback", "returned", "raised"}
            /\ events[1] = [call |-> "triton_add", ok |-> FALSE]
            /\ apc # "except" => events[2] = Warning(caught)
            /\ Finished => (Len(events) = 3 /\ events[3].call = "pytorch_add")
            /\ apc = "returned" =>
                /\ events[3].ok
                /\ result = pytorch_add(x, y, FALSE).value
                /\ raised = NoException
            /\ apc = "raised" =>
                /\ ~events[3].ok
                /\ result = None
                /\ raised.type = "RuntimeError"
                /\ raised.context = caught

\* the launch failed on valid operands, and add() returned the fallback's sum
C5_Witness ==
    /\ entry = "add"
    /\ caught = KernelError
    /\ apc = "returned"
    /\ numel(x) > BLOCK_SIZE
    /\ result.data = [i \in 1..numel(x) |-> x.data[i] + y.data[i]]

(***************************************************************************)
(* Properties of the exporter, the harness and the command line (checked   *)
(* under SpecCli)                                                          *)
(***************************************************************************)
ExportStarted == ex.pc # "idle"
ExportFailing == ExportStarted /\ ex.pc \in {"except", "raised"}
Mismatch == ~allclose(ex.original_result, ex.loaded_result)

\* C6 as stated: once tracing/scripting and saving have succeeded, nothing of
\* the verification stage (reload, run, compare) makes the export raise.
C6_VerificationNeverRaises ==
    (ExportStarted /\ ex.disk # "none") => ~ExportFailing

\* C6 amended: once tracing/scripting and saving have succeeded, a mismatch
\* between the original and the reloaded unit's results never makes the
\* export raise: it is logged as a warning and the serialized model is
\* returned with the artifact on disk.  An exception while reloading the
\* artifact or running the units is logged as an error and re-raised, the
\* artifact staying on disk; no other stage of the verification raises.
C6_MismatchIsSoftReloadIsNot ==
    ExportStarted =>
        /\ ex.pc = "returned" =>
            /\ ex.model = ex.scripted_model
            /\ ex.model # None
            /\ ex.disk # "none"
            /\ Calls("logger.error") = {}
            /\ Mismatch <=> (\E i \in 1..Len(events) : events[i] = Log("logger.warning", "verification mismatch"))
        /\ ExportFailing =>
            /\ ex.model = None
            /\ ex.exc.stage \in {"serialize", "save", "load", "run"}
            /\ ex.exc.stage \in {"load", "run"} <=> ex.disk # "none"
            /\ ex.pc = "raised" => Calls("logger.error") # {}

\* the reloaded unit disagreed with the original and the model was returned all the same
C6_Witness ==
    /\ ExportStarted
    /\ ex.pc = "returned"
    /\ Mismatch
    /\ ex.disk = "unfaithful"

\* C7: an exception while tracing/scripting or saving is logged and re-raised
\* by the exporter, no model being returned; the export subcommand then prints
\* the failure indicator and exits with code 1; when the exporter returns, the
\* subcommand reports success and the exit code is not 1.
C7_ExportFailureExitsOne ==
    /\ (ExportStarted /\ ex.exc # NoException) =>
        /\ ExportFailing
        /\ ex.model = None
        /\ ex.pc = "raised" =>
            (\E i \in 1..Len(events) : events[i] = Log("logger.error", ex.exc.stage))
    /\ (args.command = "export" /\ cpc = "done") =>
        /\ ex.pc \in {"returned", "raised"}
        /\ ex.pc = "raised" => (exit_code = 1 /\ stdout = <<Line("export failed")>>)
        /\ ex.pc = "returned" => (exit_code = 0 /\ stdout = <<Line("export succeeded")>>)
    /\ (args.command = "export" /\ cpc = "exit") => ex.pc = "returned"

\* saving failed and the run has ended with exit code 1
C7_Witness ==
    /\ cpc = "done"
    /\ exit_code = 1
    /\ ExportStarted
    /\ ex.exc = StageError("save")
    /\ stdout = <<Line("export failed")>>

\* C8: with no accelerator, validate_correctness returns False and
\* benchmark_add_operations returns a record whose kernel times, fallback
\* times, speedups and accuracy checks are all empty; neither executor is
\* called and neither function raises.
C8_NoAcceleratorShortCircuits ==
    (entry = "main" /\ args.command = "test" /\ ~cuda_available) =>
        /\ vc.pc \in {"idle", "returned"}
        /\ vc.pc = "returned" => vc.result = FALSE
        /\ bm.pc \in {"idle", "returned"}
        /\ bm.pc = "returned" =>
            /\ bm.results.triton_times = <<>>
            /\ bm.results.pytorch_times = <<>>
            /\ bm.results.speedup_ratios = <<>>
            /\ bm.results.accuracy_checks = <<>>
        /\ Calls("triton_add") = {}
        /\ Calls("pytorch_add") = {}

\* both functions have returned in a run without an accelerator
C8_Witness ==
    /\ entry = "main"
    /\ ~cuda_available
    /\ vc.pc = "returned"
    /\ bm.pc = "returned"
    /\ Cardinality(Calls("logger.warning")) = 2

\* C9: every run of the command line other than a failing export ends
\* normally with exit code 0 and no uncaught error; in particular test
\* --benchmark and test --correctness without an accelerator.
C9_OnlyFailingExportExitsNonZero ==
    (cpc = "done" /\ ~(args.command = "export" /\ ex.pc = "raised")) =>
        /\ exit_code = 0
        /\ \A i \in 1..Len(stdout) : stdout[i].line # "Traceback"

(***************************************************************************)
(* The event order of benchmark_add_operations (checked under SpecBench)   *)
(***************************************************************************)
BenchmarkStarted == Log("logger.info", "benchmark started")
\* what the benchmark has done so far: the events after its start line
BenchEvents ==
    LET b == CHOOSE i \in 1..Len(events) : events[i] = BenchmarkStarted
    IN SubSeq(events, b + 1, Len(events))
Executors == {"triton_add", "pytorch_add"}

RECURSIVE Rep(_, _)
Rep(q, k) == IF k = 0 THEN <<>> ELSE q \o Rep(q, k - 1)
\* q is a prefix of p repeated k times
IsPrefixOfRep(q, p, k) ==
    /\ Len(q) <= k * Len(p)
    /\ \A i \in 1..Len(q) : q[i] = p[((i - 1) % Len(p)) + 1]

\* one timed invocation: barrier, start timestamp, launch, barrier, end timestamp
TimedInvocation(f) ==
    <<"torch.cuda.synchronize", "time.perf_counter", f,
      "torch.cuda.synchronize", "time.perf_counter">>
\* the calls of one tested size, between the two log lines of the size
SizeEvents(num_runs) ==
    <<"logger.info">> \o Rep(<<"triton_add", "pytorch_add">>, 3) \o <<"torch.cuda.synchronize">>
        \o Rep(TimedInvocation("triton_add"), num_runs)
        \o Rep(TimedInvocation("pytorch_add"), num_runs)
        \o <<"logger.info">>

\* C11: with an accelerator available, what benchmark_add_operations does is at
\* every moment a prefix of, and at its return exactly, the following
\* sequence repeated for each tested size: 3 warm-up invocations of each
\* executor, one device synchronization, num_runs timed invocations of the
\* kernel executor, then num_runs timed invocations of the fallback executor,
\* every timed invocation being barrier, start timestamp, launch, barrier,
\* end timestamp.  So no timed invocation precedes the end of the warm-up of
\* its size, and every size that was measured had exactly num_runs timed
\* invocations of each executor.  Only an executor call that raises ends the
\* sequence early, and that call is then the last event.
C11_BenchmarkEventOrder ==
    (cuda_available /\ bm.pc # "idle") =>
        LET done == BenchEvents
            calls == [i \in 1..Len(done) |-> done[i].call]
            each == SizeEvents(bm.num_runs)
            sizes == Len(bm.results.sizes)
            failed == {i \in 1..Len(done) : done[i].call \in Executors /\ ~done[i].ok}
        IN /\ IsPrefixOfRep(calls, each, sizes)
           /\ bm.pc = "returned" => Len(done) = sizes * Len(each)
           /\ Len(done) >= Len(bm.results.triton_times) * Len(each)
           /\ bm.pc # "raised" => failed = {}
           /\ bm.pc = "raised" => failed = {Len(done)}

\* the benchmark has returned after timing every size num_runs times per executor
C11_Witness ==
    /\ entry = "benchmark_add_operations"
    /\ cuda_available
    /\ bm.pc = "returned"
    /\ Len(bm.results.triton_times) = Len(bm.results.sizes)
    /\ Len(bm.results.sizes) > 0
    /\ Cardinality(Calls("time.perf_counter")) = 4 * bm.num_runs * Len(bm.results.sizes)
    /\ Cardinality(Calls("torch.cuda.synchronize")) =
           (4 * bm.num_runs + 1) * Len(bm.results.sizes)

====
